---- MODULE Spec2Model ----
(***************************************************************************)
(* Model of src/ingest_data.py: download_file and main.  One run of main   *)
(* downloads a CSV to a staging file, builds a database handle, reads the  *)
(* file in batches of `chunksize` rows, replaces the target table with the *)
(* first batch's structure and appends every batch.                        *)
(*                                                                         *)
(* Rows are not enumerated one by one: a batch is the interval lo..hi of   *)
(* row numbers of the file it holds, and the table is the sequence of the  *)
(* intervals written to it, so the real batch size can be used.            *)
(***************************************************************************)
EXTENDS Integers, Sequences, FiniteSets, TLC

\* pd.read_csv(..., chunksize=100000)
chunksize == 100000

\* Bounds of the model.
MaxBatches == 2
MaxPriorRows == 2
MaxRuns == 2

VARIABLES
    pc,          \* position of main
    run,         \* number of the current invocation of main
    nRows,       \* data rows of the remote CSV behind params.url
    fileExists,  \* os.path.exists(csv_name)
    fileRows,    \* data rows held by the staging file
    pos,         \* rows consumed from df_iter
    df,          \* the variable df: the current batch
    table,       \* the target table table_name in the database
    table0,      \* history: the table as it was when the run started
    firstRaw,    \* history: column types of the first batch as read
    outcome,     \* which final message the run logged
    outcome0,    \* history: the outcome of the run before this one
    pending,     \* the exception in flight, "none" when there is none
    trace        \* history: the steps attempted in this run, in order

vars == <<pc, run, nRows, fileExists, fileRows, pos, df, table, table0,
          firstRaw, outcome, outcome0, pending, trace>>

Min(a, b) == IF a <= b THEN a ELSE b

Ceil(a, b) == (a + b - 1) \div b

\* Row counts of the remote file: around every multiple of the batch size,
\* the empty file, one row, and two and a half batches.
NChoices ==
    {0, 1, (5 * chunksize) \div 2}
        \cup {k * chunksize + d : k \in 1..MaxBatches, d \in {-1, 0, 1}}

----------------------------------------------------------------------------
\* Columns and their types.

DatetimeCols == {"tpep_pickup_datetime", "tpep_dropoff_datetime"}

Cols == DatetimeCols \cup {"other_column"}

SqlCols == Cols \cup {"index"}

\* read_csv infers the column types of each chunk on its own: the timestamp
\* columns come out as text (object), another column as int64 or float64.
InferredTypes == {"int64", "float64"}

RawDtypes(other) == [c \in Cols |-> IF c \in DatetimeCols THEN "object" ELSE other]

NoDtypes == [c \in Cols |-> "none"]

\* df.<col> = pd.to_datetime(df.<col>)
to_datetime(dtypes, col) == [dtypes EXCEPT ![col] = "datetime64"]

ParseTimestamps(dtypes) ==
    to_datetime(to_datetime(dtypes, "tpep_pickup_datetime"), "tpep_dropoff_datetime")

\* The table structure to_sql derives from a frame: its columns plus the index.
SqlSchema(dtypes) == [c \in SqlCols |-> IF c = "index" THEN "int64" ELSE dtypes[c]]

NoSchema == [c \in SqlCols |-> "none"]

PriorSchema == [c \in SqlCols |-> "text"]

----------------------------------------------------------------------------
\* Batches and the table.

NoBatch == [k |-> 0, lo |-> 0, hi |-> 0, dtypes |-> NoDtypes]

ChunkEndOversized(p, total) == Min(p + chunksize + 1, total)

\* The last row of the chunk that starts after row p of a file of `total` rows.
ChunkEnd(p, total) == Min(p + chunksize, total)

BatchRows(b) == b.hi - b.lo + 1

NoTable == [exists |-> FALSE, schema |-> NoSchema, rows |-> <<>>]

Segment(r, b) == [run |-> r, lo |-> b.lo, hi |-> b.hi]

ToSqlReplaceKeepingRows(tbl, dtypes) ==
    [exists |-> TRUE, schema |-> SqlSchema(dtypes), rows |-> tbl.rows]

\* df.head(n=0).to_sql(name=table_name, con=engine, if_exists='replace')
ToSqlReplace(tbl, dtypes) ==
    [exists |-> TRUE, schema |-> SqlSchema(dtypes), rows |-> <<>>]

ToSqlAppendReplacing(tbl, b, r) ==
    [exists |-> TRUE, schema |-> SqlSchema(b.dtypes),
     rows |-> IF BatchRows(b) > 0 THEN <<Segment(r, b)>> ELSE <<>>]

\* df.to_sql(name=table_name, con=engine, if_exists='append')
ToSqlAppend(tbl, b, r) ==
    IF tbl.exists
    THEN [tbl EXCEPT !.rows = IF BatchRows(b) > 0 THEN Append(@, Segment(r, b)) ELSE @]
    ELSE [exists |-> TRUE, schema |-> SqlSchema(b.dtypes),
          rows |-> IF BatchRows(b) > 0 THEN <<Segment(r, b)>> ELSE <<>>]

RECURSIVE SumRows(_)
SumRows(s) == IF s = <<>> THEN 0 ELSE (Head(s).hi - Head(s).lo + 1) + SumRows(Tail(s))

RowCount(tbl) == SumRows(tbl.rows)

PriorTables ==
    {NoTable, [exists |-> TRUE, schema |-> PriorSchema, rows |-> <<>>]}
        \cup {[exists |-> TRUE, schema |-> PriorSchema,
               rows |-> <<[run |-> 0, lo |-> 1, hi |-> n]>>] : n \in 1..MaxPriorRows}

----------------------------------------------------------------------------
\* Control flow of main.

Step(op, k, n, res) == [op |-> op, k |-> k, n |-> n, res |-> res]

StepAfterCreateFirst(p) ==
    CASE p = "read_csv" -> "first_next"
      [] p = "first_next" -> "create_table"
      [] p = "create_table" -> "first_parse"
      [] p = "first_parse" -> "first_insert"
      [] p = "first_insert" -> "loop_next"
      [] p = "loop_next" -> "loop_parse"
      [] p = "loop_parse" -> "loop_insert"
      [] p = "loop_insert" -> "loop_next"

\* The statement that follows statement p of the try block when p succeeds.
StepAfter(p) ==
    CASE p = "read_csv" -> "first_next"
      [] p = "first_next" -> "first_parse"
      [] p = "first_parse" -> "create_table"
      [] p = "create_table" -> "first_insert"
      [] p = "first_insert" -> "loop_next"
      [] p = "loop_next" -> "loop_parse"
      [] p = "loop_parse" -> "loop_insert"
      [] p = "loop_insert" -> "loop_next"

ExceptTargetSwallowInLoop(p) ==
    IF p \in {"loop_next", "loop_parse", "loop_insert"} THEN "loop_next" ELSE "cleanup"

\* Where control goes when statement p of the try block raises an Exception:
\* the inner handler takes StopIteration only, the outer one everything, and
\* the finally block follows.
ExceptTarget(p) == "cleanup"

ReRaise(e) == e

\* The exception still in flight after `except Exception as e: logging.error(...)`.
AfterExcept(e) == "none"

CleanupSkipped(exists) == exists

\* if os.path.exists(csv_name): os.remove(csv_name)
AfterCleanup(exists) == IF exists THEN FALSE ELSE exists

\* A statement of the try block raises e: the outer handler logs it.
Raise(op, k, n, res, e) ==
    /\ trace' = Append(trace, Step(op, k, n, res))
    /\ outcome' = "processing_error"
    /\ pending' = AfterExcept(e)
    /\ pc' = ExceptTarget(pc)

Init ==
    /\ pc = "download"
    /\ run = 1
    /\ nRows \in NChoices
    /\ fileExists = FALSE
    /\ fileRows = 0
    /\ pos = 0
    /\ df = NoBatch
    /\ table \in PriorTables
    /\ table0 = table
    /\ firstRaw = NoDtypes
    /\ outcome = "none"
    /\ outcome0 = "none"
    /\ pending = "none"
    /\ trace = <<>>

\* download_file up to raise_for_status: requests.get, the status check.
DownloadRequest ==
    /\ pc = "download"
    /\ \/ /\ pc' = "stream"
          /\ UNCHANGED <<trace, outcome>>
       \/ /\ trace' = Append(trace, Step("download", 0, 0, "fail"))
          /\ outcome' = "download_error"
          /\ pc' = "returned"
    /\ UNCHANGED <<outcome0, run, nRows, fileExists, fileRows, pos, df, table, table0,
                   firstRaw, pending>>

\* download_file from open(output_path, "wb") on: the file is created or
\* truncated, then the body is written chunk by chunk.
DownloadStream ==
    /\ pc = "stream"
    /\ fileExists' = TRUE
    /\ \/ /\ fileRows' = nRows
          /\ trace' = Append(trace, Step("download", 0, 0, "ok"))
          /\ pc' = "create_engine"
          /\ UNCHANGED outcome
       \/ /\ fileRows' \in {0, nRows \div 2}
          /\ trace' = Append(trace, Step("download", 0, 0, "fail"))
          /\ outcome' = "download_error"
          /\ pc' = "returned"
    /\ UNCHANGED <<outcome0, run, nRows, pos, df, table, table0, firstRaw, pending>>

CreateEngine ==
    /\ pc = "create_engine"
    /\ \/ /\ trace' = Append(trace, Step("engine", 0, 0, "ok"))
          /\ pc' = "read_csv"
          /\ UNCHANGED outcome
       \/ /\ trace' = Append(trace, Step("engine", 0, 0, "fail"))
          /\ outcome' = "connect_error"
          /\ pc' = "returned"
    /\ UNCHANGED <<outcome0, run, nRows, fileExists, fileRows, pos, df, table, table0,
                   firstRaw, pending>>

ReadCsv ==
    /\ pc = "read_csv"
    /\ \/ /\ pos' = 0
          /\ trace' = Append(trace, Step("read_csv", 0, 0, "ok"))
          /\ pc' = StepAfter(pc)
          /\ UNCHANGED <<outcome, pending>>
       \/ /\ Raise("read_csv", 0, 0, "fail", "EmptyDataError")
          /\ UNCHANGED pos
    /\ UNCHANGED <<outcome0, run, nRows, fileExists, fileRows, df, table, table0, firstRaw>>

\* next(df_iter) yielding the chunk after row pos.
YieldBatch(other) ==
    /\ df' = [k |-> df.k + 1, lo |-> pos + 1, hi |-> ChunkEnd(pos, fileRows),
              dtypes |-> RawDtypes(other)]
    /\ pos' = ChunkEnd(pos, fileRows)
    /\ trace' = Append(trace, Step("next", df.k + 1, ChunkEnd(pos, fileRows) - pos, "ok"))
    /\ pc' = StepAfter(pc)

\* df = next(df_iter), first chunk.  A file with no data row gives one empty
\* chunk or an iterator that is exhausted at once, depending on the reader.
FirstNext ==
    /\ pc = "first_next"
    /\ \/ /\ \E other \in InferredTypes : YieldBatch(other)
          /\ firstRaw' = df'.dtypes
          /\ UNCHANGED <<outcome, pending>>
       \/ /\ fileRows = 0
          /\ Raise("next", df.k + 1, 0, "stop", "StopIteration")
          /\ UNCHANGED <<pos, df, firstRaw>>
       \/ /\ Raise("next", df.k + 1, 0, "fail", "ParserError")
          /\ UNCHANGED <<pos, df, firstRaw>>
    /\ UNCHANGED <<outcome0, run, nRows, fileExists, fileRows, table, table0>>

FirstParse ==
    /\ pc = "first_parse"
    /\ \/ /\ df' = [df EXCEPT !.dtypes = ParseTimestamps(@)]
          /\ trace' = Append(trace, Step("parse", df.k, BatchRows(df), "ok"))
          /\ pc' = StepAfter(pc)
          /\ UNCHANGED <<outcome, pending>>
       \/ /\ Raise("parse", df.k, BatchRows(df), "fail", "ParseError")
          /\ UNCHANGED df
    /\ UNCHANGED <<outcome0, run, nRows, fileExists, fileRows, pos, table, table0, firstRaw>>

\* The zero-row replace.  When it fails the drop of the old table has either
\* been rolled back or has already taken effect.
CreateTable ==
    /\ pc = "create_table"
    /\ \/ /\ table' = ToSqlReplace(table, df.dtypes)
          /\ trace' = Append(trace, Step("replace", df.k, 0, "ok"))
          /\ pc' = StepAfter(pc)
          /\ UNCHANGED <<outcome, pending>>
       \/ /\ table' \in {table, NoTable}
          /\ Raise("replace", df.k, 0, "fail", "WriteError")
    /\ UNCHANGED <<outcome0, run, nRows, fileExists, fileRows, pos, df, table0, firstRaw>>

InsertChunk ==
    \/ /\ table' = ToSqlAppend(table, df, run)
       /\ trace' = Append(trace, Step("append", df.k, BatchRows(df), "ok"))
       /\ pc' = StepAfter(pc)
       /\ UNCHANGED <<outcome, pending>>
    \/ /\ Raise("append", df.k, BatchRows(df), "fail", "WriteError")
       /\ UNCHANGED table

FirstInsert ==
    /\ pc = "first_insert"
    /\ InsertChunk
    /\ UNCHANGED <<outcome0, run, nRows, fileExists, fileRows, pos, df, table0, firstRaw>>

\* df = next(df_iter) inside the loop; StopIteration is caught by the inner
\* handler, which logs the completion and breaks.
LoopNext ==
    /\ pc = "loop_next"
    /\ \/ /\ pos < fileRows
          /\ \E other \in InferredTypes : YieldBatch(other)
          /\ UNCHANGED <<outcome, pending>>
       \/ /\ pos >= fileRows
          /\ trace' = Append(trace, Step("next", df.k + 1, 0, "stop"))
          /\ outcome' = "finished"
          /\ pc' = "cleanup"
          /\ UNCHANGED <<pos, df, pending>>
       \/ /\ pos < fileRows
          /\ Raise("next", df.k + 1, 0, "fail", "ParserError")
          /\ UNCHANGED <<pos, df>>
    /\ UNCHANGED <<outcome0, run, nRows, fileExists, fileRows, table, table0, firstRaw>>

LoopParse ==
    /\ pc = "loop_parse"
    /\ \/ /\ df' = [df EXCEPT !.dtypes = ParseTimestamps(@)]
          /\ trace' = Append(trace, Step("parse", df.k, BatchRows(df), "ok"))
          /\ pc' = StepAfter(pc)
          /\ UNCHANGED <<outcome, pending>>
       \/ /\ Raise("parse", df.k, BatchRows(df), "fail", "ParseError")
          /\ UNCHANGED df
    /\ UNCHANGED <<outcome0, run, nRows, fileExists, fileRows, pos, table, table0, firstRaw>>

LoopInsert ==
    /\ pc = "loop_insert"
    /\ InsertChunk
    /\ UNCHANGED <<outcome0, run, nRows, fileExists, fileRows, pos, df, table0, firstRaw>>

\* The finally block; an exception still in flight propagates after it.
Cleanup ==
    /\ pc = "cleanup"
    /\ fileExists' = AfterCleanup(fileExists)
    /\ pc' = IF pending = "none" THEN "returned" ELSE "raised"
    /\ UNCHANGED <<outcome0, run, nRows, fileRows, pos, df, table, table0, firstRaw,
                   outcome, pending, trace>>

\* The script is invoked again with the same arguments.
Rerun ==
    /\ pc = "returned"
    /\ run < MaxRuns
    /\ run' = run + 1
    /\ pc' = "download"
    /\ pos' = 0
    /\ df' = NoBatch
    /\ table0' = table
    /\ firstRaw' = NoDtypes
    /\ outcome' = "none"
    /\ outcome0' = outcome
    /\ pending' = "none"
    /\ trace' = <<>>
    /\ UNCHANGED <<nRows, fileExists, fileRows, table>>

Next ==
    \/ DownloadRequest
    \/ DownloadStream
    \/ CreateEngine
    \/ ReadCsv
    \/ FirstNext
    \/ FirstParse
    \/ CreateTable
    \/ FirstInsert
    \/ LoopNext
    \/ LoopParse
    \/ LoopInsert
    \/ Cleanup
    \/ Rerun

Spec == Init /\ [][Next]_vars

----------------------------------------------------------------------------
\* Vocabulary of the properties.

Returned == pc = "returned"

Last == trace[Len(trace)]

IsAppend(s) == s.op = "append"

Appends == SelectSeq(trace, IsAppend)

\* The run went through to the completion message and no step of it failed.
NoStepFailed ==
    /\ outcome = "finished"
    /\ \A i \in 1..Len(trace) : trace[i].res # "fail"

\* Batch i of a file of nRows rows cut every chunksize rows, as written by run r.
ExpectedSegment(r, i) ==
    [run |-> r, lo |-> (i - 1) * chunksize + 1, hi |-> Min(i * chunksize, nRows)]

ExpectedRows(r, m) == [i \in 1..m |-> ExpectedSegment(r, i)]

ExpectedSizes ==
    [i \in 1..Ceil(nRows, chunksize) |-> Min(chunksize, nRows - (i - 1) * chunksize)]

Contents(tbl) == [i \in 1..Len(tbl.rows) |-> <<tbl.rows[i].lo, tbl.rows[i].hi>>]

RowsLoaded ==
    /\ RowCount(table) = nRows
    /\ Len(Appends) = Ceil(nRows, chunksize)
    /\ \A i \in 1..Len(Appends) : Appends[i].res = "ok" /\ Appends[i].n <= chunksize
    /\ [i \in 1..Len(Appends) |-> Appends[i].n] = ExpectedSizes

\* C1 as stated: a run of main in which no step fails ends with the table
\* holding exactly nRows rows, written by ceil(nRows / chunksize) append calls
\* of at most chunksize rows each, for every row count nRows.
C1_RowsLoadedForEveryN == (Returned /\ NoStepFailed) => RowsLoaded

\* C1 as amended: for a file of at least one data row, a run of main in which
\* no step fails ends with the table holding exactly nRows rows, written by
\* ceil(nRows / chunksize) append calls of at most chunksize rows each.
C1_RowsLoadedForNonEmptyFile == (Returned /\ NoStepFailed /\ nRows >= 1) => RowsLoaded

C1_Witness ==
    /\ Returned
    /\ outcome = "finished"
    /\ nRows = (5 * chunksize) \div 2
    /\ [i \in 1..Len(Appends) |-> Appends[i].n] = <<chunksize, chunksize, chunksize \div 2>>
    /\ RowCount(table) = nRows

\* C2: whenever main has returned, by whatever path, no staging file is left.
C2_FileDeletedOnEveryPath == Returned => ~fileExists

\* C3: when download_file failed, the table is as it was before the run and
\* no file exists at the staging path once main has returned.
C3_DownloadFailureLeavesNothing ==
    (Returned /\ outcome = "download_error") => (table = table0 /\ ~fileExists)

\* C4: when parsing the timestamps of batch k (k >= 2) failed, the table holds
\* exactly the rows of batches 1..k-1 once main has returned, and the staging
\* file is deleted.
C4_ParseFailureKeepsEarlierBatches ==
    (Returned /\ trace # <<>> /\ Last.op = "parse" /\ Last.res = "fail" /\ Last.k >= 2)
        => /\ table.exists
           /\ table.rows = ExpectedRows(run, Last.k - 1)
           /\ ~fileExists

C4_Witness ==
    /\ Returned
    /\ trace # <<>>
    /\ Last.op = "parse" /\ Last.res = "fail" /\ Last.k = 3
    /\ Len(table.rows) = 2
    /\ table0.rows # <<>>

\* C5: a run that completes without failure leaves the table holding exactly
\* the rows of the downloaded file and none of the rows it held before; a
\* second successful run leaves the contents the first one left.
C5_SuccessfulRunReplacesContents ==
    (Returned /\ outcome = "finished")
        => /\ table.exists
           /\ table.rows = ExpectedRows(run, Ceil(nRows, chunksize))
           /\ (outcome0 = "finished" => Contents(table) = Contents(table0))

C5_Witness ==
    /\ Returned
    /\ outcome = "finished"
    /\ outcome0 = "finished"
    /\ run = 2
    /\ Len(table0.rows) = 3

Replaces == {i \in 1..Len(trace) : trace[i].op = "replace"}

Replaced == \E i \in Replaces : trace[i].res = "ok"

\* C6: the replace is issued at most once in a run and, in every state after
\* it, the table's columns are those of the first batch as read, with the two
\* timestamp columns converted, whatever batches have been appended since.
C6_SchemaFixedByFirstBatch ==
    /\ Cardinality(Replaces) <= 1
    /\ Replaced =>
          table.schema = [c \in SqlCols |->
                             IF c = "index" THEN "int64"
                             ELSE IF c \in DatetimeCols THEN "datetime64"
                             ELSE firstRaw[c]]

C6_Witness ==
    /\ Replaced
    /\ trace # <<>>
    /\ Last.op = "append" /\ Last.res = "ok" /\ Last.k = 2
    /\ df.dtypes["other_column"] # firstRaw["other_column"]

\* C7: whenever the batch stream is exhausted, on the first read as on a later
\* one, the run ends on the normal-completion path.
C7_ExhaustionCompletesNormally ==
    \A i \in 1..Len(trace) :
        (trace[i].op = "next" /\ trace[i].res = "stop") => outcome = "finished"

\* C8: no exception leaves main; a failed step is logged as an error; and no
\* step is attempted after a step has failed, nor any step twice.
C8_ErrorsCaughtNothingRetried ==
    /\ pc # "raised"
    /\ Returned => pending = "none"
    /\ \A i \in 1..Len(trace) :
          /\ i < Len(trace) => trace[i].res = "ok"
          /\ trace[i].res = "fail" =>
                outcome \in {"download_error", "connect_error", "processing_error"}
          /\ \A j \in 1..Len(trace) :
                (trace[i].op = trace[j].op /\ trace[i].k = trace[j].k) => i = j

C8_Witness ==
    /\ Returned
    /\ trace # <<>>
    /\ Last.op = "append" /\ Last.res = "fail" /\ Last.k = 2
    /\ ~fileExists

IsLoadStep(s) == s.op \in {"next", "parse", "replace", "append"}

LoadFailed == \E i \in 1..Len(trace) : IsLoadStep(trace[i]) /\ trace[i].res = "fail"

IsWritten(s) == s.op = "append" /\ s.res = "ok" /\ s.n > 0

Written == SelectSeq(trace, IsWritten)

\* The batches the append calls of this run have written, from the log.
AppendedRows ==
    [i \in 1..Len(Written) |->
        [run |-> run, lo |-> (Written[i].k - 1) * chunksize + 1,
         hi |-> (Written[i].k - 1) * chunksize + Written[i].n]]

ReplaceOnceBeforeAppends ==
    /\ Cardinality(Replaces) <= 1
    /\ \A j \in 1..Len(trace) :
          trace[j].op = "append" => \E i \in Replaces : i < j
    /\ \A i, j \in 1..Len(trace) :
          (i < j /\ trace[i].res = "fail") => trace[j].op \notin {"replace", "append"}

\* C9 as stated: the replace is issued at most once and before any append, no
\* replace or append follows a failed step, and after a failure of the load the
\* table holds exactly the batches appended before it.
C9_TableHoldsOnlyAppendedBatches ==
    /\ ReplaceOnceBeforeAppends
    /\ LoadFailed => table.rows = AppendedRows

\* C9 as amended: as stated, except that after a failure that came before the
\* replace the table also holds what it held before the run, and after a
\* failed replace it holds either that or nothing.
C9_TableHoldsPriorAndAppendedBatches ==
    /\ ReplaceOnceBeforeAppends
    /\ LoadFailed =>
          \/ /\ Replaced
             /\ table.rows = AppendedRows
          \/ /\ Replaces = {}
             /\ table = table0
             /\ AppendedRows = <<>>
          \/ /\ Replaces # {}
             /\ ~Replaced
             /\ table \in {table0, NoTable}
             /\ AppendedRows = <<>>

C9_Witness ==
    /\ Returned
    /\ LoadFailed
    /\ Last.op = "append" /\ Last.k = 3
    /\ Len(table.rows) = 2
    /\ table0.rows # <<>>

FirstBatchFailed ==
    \E i \in 1..Len(trace) :
        \/ trace[i].op = "read_csv" /\ trace[i].res = "fail"
        \/ trace[i].op \in {"next", "parse"} /\ trace[i].k = 1 /\ trace[i].res # "ok"

\* C10: when reading or parsing the first batch fails, no replace and no
\* append has been issued and the table is as it was before the run.
C10_FirstBatchFailureKeepsTable ==
    FirstBatchFailed =>
        /\ table = table0
        /\ \A i \in 1..Len(trace) : trace[i].op \notin {"replace", "append"}

C10_Witness ==
    /\ Returned
    /\ trace # <<>>
    /\ Last.op = "parse" /\ Last.k = 1 /\ Last.res = "fail"
    /\ table.rows # <<>>
    /\ ~fileExists

====
